---- MODULE Spec2Model ----
(***************************************************************************)
(* Contact-management assistant (src/main.py): the field value types       *)
(* Phone and Birthday, the contact Record, the AddressBook store with its  *)
(* upcoming-birthdays query, and the `add`, `change` and `add-birthday`    *)
(* commands of the command loop.                                           *)
(*                                                                         *)
(* A text is a tuple of one-character strings; a character outside ASCII   *)
(* is written as its code point ("u0662" is ARABIC-INDIC DIGIT TWO).       *)
(* Python's None is the empty tuple, a present value v the tuple <<v>>.    *)
(***************************************************************************)
EXTENDS Integers, Sequences, FiniteSets, TLC

VARIABLES
    book,   \* AddressBook.data: the entries [key, value] in insertion order
    ev,     \* the last call: [op, args, raised]
    res     \* what the last call returned (<<>> for None)

vars == <<book, ev, res>>

(***************************************************************************)
(* Bounds of the model.                                                    *)
(***************************************************************************)
MaxPhones == 2      \* phones held by one record
MaxArgs == 2        \* phone arguments of one `add` command

(***************************************************************************)
(* Characters and texts.                                                   *)
(***************************************************************************)
AsciiDigits == {"0", "1", "2", "3", "4", "5", "6", "7", "8", "9"}

\* The characters the pattern \d of a str regex matches: every Unicode
\* decimal digit (category Nd), of which the model holds the ASCII ones and one
\* more.
UnicodeDigits == AsciiDigits \cup {"u0662"}

DigitVal(c) ==
    CASE c = "0" -> 0 [] c = "1" -> 1 [] c = "2" -> 2 [] c = "3" -> 3
      [] c = "4" -> 4 [] c = "5" -> 5 [] c = "6" -> 6 [] c = "7" -> 7
      [] c = "8" -> 8 [] c = "9" -> 9 [] c = "u0662" -> 2

DigitChar(n) ==
    CASE n = 0 -> "0" [] n = 1 -> "1" [] n = 2 -> "2" [] n = 3 -> "3"
      [] n = 4 -> "4" [] n = 5 -> "5" [] n = 6 -> "6" [] n = 7 -> "7"
      [] n = 8 -> "8" [] n = 9 -> "9"

\* int(text) of a text of digits.
RECURSIVE ToInt(_)
ToInt(t) ==
    IF t = <<>> THEN 0
    ELSE 10 * ToInt(SubSeq(t, 1, Len(t) - 1)) + DigitVal(t[Len(t)])

\* The text of c repeated n times.
Rep(c, n) == [i \in 1..n |-> c]

(***************************************************************************)
(* Phone.                                                                  *)
(***************************************************************************)
PhoneLen == 10

\* The position after n characters matching \d from position pos of t, or 0
\* when the text does not match there.
RECURSIVE MatchDigits(_, _, _)
MatchDigits(t, pos, n) ==
    IF n = 0 THEN pos
    ELSE IF pos <= Len(t) /\ t[pos] \in UnicodeDigits
         THEN MatchDigits(t, pos + 1, n - 1)
         ELSE 0

\* A validate that matches a prefix only (re.match for re.fullmatch).
PhoneValidatePrefix(value) == MatchDigits(value, 1, PhoneLen) # 0

\* Phone.validate: re.fullmatch(r"\d{10}", value).
PhoneValidate(value) == MatchDigits(value, 1, PhoneLen) = Len(value) + 1

\* Phone(value): the constructor raises ValueError unless validate holds.
Phone(value) ==
    IF PhoneValidate(value)
    THEN [raised |-> FALSE, value |-> value]
    ELSE [raised |-> TRUE, value |-> <<>>]

(***************************************************************************)
(* Calendar dates (datetime): [year, month, day, tod], tod the time of day *)
(* in hours since midnight.                                                *)
(***************************************************************************)
IsLeap(y) == (y % 4 = 0) /\ ((y % 100 # 0) \/ (y % 400 = 0))

DaysInMonth(y, m) ==
    IF m = 2 THEN (IF IsLeap(y) THEN 29 ELSE 28)
    ELSE IF m \in {4, 6, 9, 11} THEN 30 ELSE 31

\* datetime(year, month, day) accepts exactly the real dates of years 1..9999.
IsDate(y, m, d) ==
    /\ y \in 1..9999
    /\ m \in 1..12
    /\ d \in 1..DaysInMonth(y, m)

DateTime(y, m, d, t) == [year |-> y, month |-> m, day |-> d, tod |-> t]

\* a < b on datetimes.
DtLess(a, b) ==
    \/ a.year < b.year
    \/ a.year = b.year /\ a.month < b.month
    \/ a.year = b.year /\ a.month = b.month /\ a.day < b.day
    \/ a.year = b.year /\ a.month = b.month /\ a.day = b.day /\ a.tod < b.tod

DtLeq(a, b) == a = b \/ DtLess(a, b)

\* dt + timedelta(days=n).
RECURSIVE AddDays(_, _)
AddDays(dt, n) ==
    IF n = 0 THEN dt
    ELSE IF dt.day < DaysInMonth(dt.year, dt.month)
         THEN AddDays([dt EXCEPT !.day = @ + 1], n - 1)
    ELSE IF dt.month < 12
         THEN AddDays([dt EXCEPT !.month = @ + 1, !.day = 1], n - 1)
    ELSE AddDays([dt EXCEPT !.year = @ + 1, !.month = 1, !.day = 1], n - 1)

\* dt.replace(year=y): raises ValueError when the date does not exist.
ReplaceYear(dt, y) ==
    IF IsDate(y, dt.month, dt.day)
    THEN [raised |-> FALSE, value |-> [dt EXCEPT !.year = y]]
    ELSE [raised |-> TRUE, value |-> dt]

(***************************************************************************)
(* Birthday: datetime.strptime(value, "%d.%m.%Y") and strftime.            *)
(***************************************************************************)
Has(t, pos, set) == pos <= Len(t) /\ t[pos] \in set

\* The positions after a match of %d at pos:  3[0-1]|[1-2]\d|0[1-9]|[1-9]| [1-9]
DayEnds(t, pos) ==
    (IF \/ Has(t, pos, {"3"}) /\ Has(t, pos + 1, {"0", "1"})
        \/ Has(t, pos, {"1", "2"}) /\ Has(t, pos + 1, UnicodeDigits)
        \/ Has(t, pos, {"0"}) /\ Has(t, pos + 1, AsciiDigits \ {"0"})
        \/ Has(t, pos, {" "}) /\ Has(t, pos + 1, AsciiDigits \ {"0"})
     THEN {pos + 2} ELSE {})
    \cup (IF Has(t, pos, AsciiDigits \ {"0"}) THEN {pos + 1} ELSE {})

\* The positions after a match of %m at pos:  1[0-2]|0[1-9]|[1-9]
MonthEnds(t, pos) ==
    (IF \/ Has(t, pos, {"1"}) /\ Has(t, pos + 1, {"0", "1", "2"})
        \/ Has(t, pos, {"0"}) /\ Has(t, pos + 1, AsciiDigits \ {"0"})
     THEN {pos + 2} ELSE {})
    \cup (IF Has(t, pos, AsciiDigits \ {"0"}) THEN {pos + 1} ELSE {})

YearDigits == 4

\* The matches of the whole pattern %d\.%m\.%Y at the start of t, each as
\* <<end of day, end of month, end of year>>.
Matches(t) ==
    {<<d, m, MatchDigits(t, m + 1, YearDigits)>> :
        <<d, m>> \in {p \in DayEnds(t, 1) \X (2..(Len(t) + 1)) :
                          /\ Has(t, p[1], {"."})
                          /\ p[2] \in MonthEnds(t, p[1] + 1)
                          /\ Has(t, p[2], {"."})
                          /\ MatchDigits(t, p[2] + 1, YearDigits) # 0}}

\* int() of a group of the match; int() skips the blank a day may start with.
GroupInt(t, from, to) ==
    IF t[from] = " " THEN ToInt(SubSeq(t, from + 1, to))
    ELSE ToInt(SubSeq(t, from, to))

\* The date of the match f of the pattern, when the match ends the text and
\* datetime(year, month, day) accepts the groups.
StrptimeDate(value, f, day, month, year) ==
    IF f[3] # Len(value) + 1 \/ ~IsDate(year, month, day)
    THEN [raised |-> TRUE, value |-> <<>>]
    ELSE [raised |-> FALSE, value |-> DateTime(year, month, day, 0)]

StrptimeMatch(value, f) ==
    StrptimeDate(value, f, GroupInt(value, 1, f[1] - 1),
                 GroupInt(value, f[1] + 1, f[2] - 1),
                 GroupInt(value, f[2] + 1, f[3] - 1))

StrptimeOf(value, matches) ==
    IF matches = {} THEN [raised |-> TRUE, value |-> <<>>]
    ELSE StrptimeMatch(value, CHOOSE f \in matches : TRUE)

\* datetime.strptime(value, "%d.%m.%Y"): ValueError when the pattern does not
\* match, when text remains after the match, or when the date does not exist.
Strptime(value) == StrptimeOf(value, Matches(value))

\* Birthday(value): the parsed datetime, or ValueError.
Birthday(value) == Strptime(value)

RECURSIVE Digits(_)
Digits(n) ==
    IF n < 10 THEN <<DigitChar(n)>>
    ELSE Digits(n \div 10) \o <<DigitChar(n % 10)>>

ZeroPad(t, width) == Rep("0", width - Len(t)) \o t

\* %Y of strftime: the C library's. glibc writes the year without padding;
\* other libraries, and later Pythons, pad it to four digits.
YearText(y, pad) == IF pad THEN ZeroPad(Digits(y), YearDigits) ELSE Digits(y)

\* dt.strftime('%d.%m.%Y').
Strftime(dt, pad) ==
    ZeroPad(Digits(dt.day), 2) \o <<".">> \o ZeroPad(Digits(dt.month), 2)
        \o <<".">> \o YearText(dt.year, pad)

(***************************************************************************)
(* Record: [name, phones, birthday].  A Phone is held as its value; no two *)
(* places of the program share one Phone object.                           *)
(***************************************************************************)
\* Record(name): Name wraps any text without validation.
Record(name) == [name |-> name, phones |-> <<>>, birthday |-> <<>>]

\* Record.add_phone: the Phone is constructed before the append.
RecAddPhone(r, phone) ==
    LET p == Phone(phone)
    IN  IF p.raised THEN [raised |-> TRUE, rec |-> r]
        ELSE [raised |-> FALSE, rec |-> [r EXCEPT !.phones = Append(@, p.value)]]

\* Record.remove_phone: keeps the phones whose value differs.
RecRemovePhone(r, phone) ==
    [raised |-> FALSE,
     rec |-> [r EXCEPT !.phones = SelectSeq(@, LAMBDA p : p # phone)]]

\* A loop without the break: every phone equal to old_phone gets the new value.
EditLoopNoBreak(phones, i, old_phone, new_phone) ==
    [k \in 1..Len(phones) |->
        IF k >= i /\ phones[k] = old_phone THEN new_phone ELSE phones[k]]

\* The loop of Record.edit_phone from position i: the first phone equal to
\* old_phone gets the new value, and the loop breaks.
RECURSIVE EditLoop(_, _, _, _)
EditLoop(phones, i, old_phone, new_phone) ==
    IF i > Len(phones) THEN phones
    ELSE IF phones[i] = old_phone THEN [phones EXCEPT ![i] = new_phone]
    ELSE EditLoop(phones, i + 1, old_phone, new_phone)

\* An edit_phone that validates after the loop.
RecEditPhoneLate(r, old_phone, new_phone) ==
    [raised |-> ~PhoneValidate(new_phone),
     rec |-> [r EXCEPT !.phones = EditLoop(@, 1, old_phone, new_phone)]]

\* Record.edit_phone: validates new_phone, then runs the loop.
RecEditPhone(r, old_phone, new_phone) ==
    IF ~PhoneValidate(new_phone) THEN [raised |-> TRUE, rec |-> r]
    ELSE [raised |-> FALSE,
          rec |-> [r EXCEPT !.phones = EditLoop(@, 1, old_phone, new_phone)]]

\* Record.find_phone: the first phone equal to phone, or None.
RECURSIVE FindLoop(_, _, _)
FindLoop(phones, i, phone) ==
    IF i > Len(phones) THEN <<>>
    ELSE IF phones[i] = phone THEN <<phones[i]>>
    ELSE FindLoop(phones, i + 1, phone)

RecFindPhone(r, phone) == FindLoop(r.phones, 1, phone)

\* Record.add_birthday: the Birthday is constructed before the assignment.
RecAddBirthday(r, birthday) ==
    LET b == Birthday(birthday)
    IN  IF b.raised THEN [raised |-> TRUE, rec |-> r]
        ELSE [raised |-> FALSE, rec |-> [r EXCEPT !.birthday = <<b.value>>]]

\* '; '.join(phones).
RECURSIVE JoinPhones(_)
JoinPhones(phones) ==
    IF phones = <<>> THEN <<>>
    ELSE IF Len(phones) = 1 THEN phones[1]
    ELSE phones[1] \o <<";", " ">> \o JoinPhones(Tail(phones))

\* Record.__str__; the fixed parts of the text are one element each.
RecStr(r, pad) ==
    <<"Contact name: ", r.name, ", phones: ">> \o JoinPhones(r.phones)
        \o (IF r.birthday # <<>>
            THEN <<", Birthday: ">> \o Strftime(r.birthday[1], pad)
            ELSE <<>>)

(***************************************************************************)
(* AddressBook: a dict, held as its entries in insertion order.            *)
(***************************************************************************)
\* The position of key in the dict, 0 when it is not a key.
BookIndex(data, key) ==
    IF \E i \in 1..Len(data) : data[i].key = key
    THEN CHOOSE i \in 1..Len(data) : data[i].key = key
    ELSE 0

\* An add_record that appends without looking for the key.
BookAddRecordAppend(data, record) ==
    Append(data, [key |-> record.name, value |-> record])

\* AddressBook.add_record: self.data[record.name.value] = record.  Assigning to
\* a key the dict holds keeps the key's position.
BookAddRecord(data, record) ==
    LET i == BookIndex(data, record.name)
    IN  IF i # 0 THEN [data EXCEPT ![i].value = record]
        ELSE Append(data, [key |-> record.name, value |-> record])

\* AddressBook.find: self.data.get(name).
BookFind(data, name) ==
    LET i == BookIndex(data, name)
    IN  IF i # 0 THEN <<data[i].value>> ELSE <<>>

\* AddressBook.delete.
BookDelete(data, name) ==
    IF BookIndex(data, name) # 0
    THEN SelectSeq(data, LAMBDA e : e.key # name)
    ELSE data

WindowDays == 7

\* An item holding the computed next occurrence.
UpcomingItemComputed(record, birthday_date) == <<record.name, birthday_date>>

\* The item appended for a record: (record.name.value, record.birthday).
UpcomingItem(record, birthday_date) == <<record.name, record.birthday[1]>>

\* The loop of get_upcoming_birthdays from entry i, upcoming the list so far.
RECURSIVE UpcomingLoop(_, _, _, _)
UpcomingLoop(data, i, today, upcoming) ==
    IF i > Len(data) THEN [raised |-> FALSE, value |-> upcoming]
    ELSE LET record == data[i].value
         IN  IF record.birthday = <<>>
             THEN UpcomingLoop(data, i + 1, today, upcoming)
             ELSE
    LET this_year == ReplaceYear(record.birthday[1], today.year)
    IN  IF this_year.raised THEN [raised |-> TRUE, value |-> <<>>]
        ELSE
    LET birthday_date ==
            IF DtLess(this_year.value, today)
            THEN ReplaceYear(this_year.value, today.year + 1)
            ELSE this_year
    IN  IF birthday_date.raised THEN [raised |-> TRUE, value |-> <<>>]
        ELSE IF /\ DtLeq(today, birthday_date.value)
                /\ DtLeq(birthday_date.value, AddDays(today, WindowDays))
        THEN UpcomingLoop(data, i + 1, today,
                 Append(upcoming, UpcomingItem(record, birthday_date.value)))
        ELSE UpcomingLoop(data, i + 1, today, upcoming)

\* AddressBook.get_upcoming_birthdays, today the value of datetime.today().
BookGetUpcomingBirthdays(data, today) == UpcomingLoop(data, 1, today, <<>>)

(***************************************************************************)
(* The `add` and `change` commands of main.                                *)
(***************************************************************************)
\* for phone in phones: record.add_phone(phone), from argument i; the first
\* ValueError ends the loop, the phones added before it stay.
RECURSIVE AddPhonesLoop(_, _, _)
AddPhonesLoop(r, phones, i) ==
    IF i > Len(phones) THEN [raised |-> FALSE, rec |-> r]
    ELSE LET a == RecAddPhone(r, phones[i])
         IN  IF a.raised THEN a ELSE AddPhonesLoop(a.rec, phones, i + 1)

\* The `add` command on the dict: the record found is changed in place, a new
\* record is stored after all its phones were added.  The ValueError is caught
\* and printed.
MainAdd(data, name, phones) ==
    LET i == BookIndex(data, name)
    IN  IF BookFind(data, name) # <<>>
        THEN LET a == AddPhonesLoop(data[i].value, phones, 1)
             IN  [raised |-> a.raised, data |-> [data EXCEPT ![i].value = a.rec]]
        ELSE LET a == AddPhonesLoop(Record(name), phones, 1)
             IN  [raised |-> a.raised,
                  data |-> IF a.raised THEN data ELSE BookAddRecord(data, a.rec)]

\* The `change` command on the record found: edit_phone of its first phone.
MainChange(r, new_phone) ==
    IF r.phones # <<>> THEN RecEditPhone(r, r.phones[1], new_phone)
    ELSE [raised |-> FALSE, rec |-> r]

(***************************************************************************)
(* Inputs.                                                                 *)
(***************************************************************************)
Names == {"Alice", "Bob"}

PhoneA == <<"1", "2", "3", "4", "5", "6", "7", "8", "9", "0">>
PhoneB == Rep("1", PhoneLen)
PhoneU == Rep("2", PhoneLen - 1) \o <<"u0662">>
PhoneShort == Rep("1", PhoneLen - 1)
PhoneLong == Rep("1", PhoneLen + 1)
PhoneLetter == Rep("1", PhoneLen - 1) \o <<"a">>
PhoneDashed == <<"1", "2", "3", "-", "4", "5", "6", "-", "7", "8", "9", "0">>

PhoneTexts ==
    {PhoneA, PhoneB, PhoneU, PhoneShort, PhoneLong, PhoneLetter, PhoneDashed}

\* The phone arguments of the `add` command.
BookPhoneTexts == {PhoneA, PhoneShort}

ArgLists(S, n) == UNION {[1..k -> S] : k \in 1..n}

\* The records handed to add_record: Record(name), and at most one add_phone.
SampleRecords ==
    {[name |-> n, phones |-> ps, birthday |-> <<>>] :
        n \in Names, ps \in {<<>>, <<PhoneA>>, <<PhoneB>>}}

DayFields ==
    {<<"1">>, <<"0", "1">>, <<"2", "9">>, <<"3", "1">>, <<"3", "2">>,
     <<" ", "1">>}
MonthFields == {<<"2">>, <<"0", "2">>, <<"1", "2">>, <<"1", "3">>}
YearFields ==
    {<<"2", "0", "0", "0">>, <<"2", "0", "0", "1">>, <<"0", "9", "9", "9">>,
     <<"0", "0", "0", "0">>, <<"2", "0", "0">>, <<"2", "0", "0", "0", "0">>,
     <<"u0662", "0", "0", "0">>}

\* Day, month and year fields joined by dots, and some texts of other shapes.
BirthdayTexts ==
    {d \o <<".">> \o m \o <<".">> \o y :
        d \in DayFields, m \in MonthFields, y \in YearFields}
    \cup {<<>>,
          <<"0", "1", "-", "0", "2", "-", "2", "0", "0", "0">>,
          <<"0", "1", "0", "2", "2", "0", "0", "0">>,
          <<"0", "0", "1", ".", "0", "2", ".", "2", "0", "0", "0">>,
          <<"0", "1", ".", "0", "2", ".", "2", "0", "0", "0", " ">>,
          <<"2", "0", "0", "0", ".", "0", "2", ".", "0", "1">>}

\* The text DD.MM.YYYY of a date.
DateText(d, m, y) == Strftime(DateTime(y, m, d, 0), TRUE)

\* The birthday texts of the record operations.
FewBirthdayTexts ==
    {DateText(5, 6, 2000), DateText(31, 2, 2000), <<"5", ".", "6">>}

\* The birthday texts of the upcoming-birthdays query.
UpcomingTexts ==
    {DateText(1, 6, 2000), DateText(3, 6, 2000), DateText(5, 6, 2000),
     DateText(8, 6, 2000), DateText(9, 6, 2000), DateText(29, 2, 2000),
     DateText(1, 1, 2000), DateText(4, 1, 1999), DateText(30, 2, 2000)}

\* The values of datetime.today() of the query.
Instants ==
    {DateTime(d[1], d[2], d[3], t) :
        d \in {<<2024, 6, 1>>, <<2024, 12, 28>>, <<2023, 2, 25>>,
               <<2024, 2, 25>>},
        t \in {0, 10}}

(***************************************************************************)
(* Operations on the record stored under name n, and on the store.         *)
(***************************************************************************)
Call(op, args, raised) == [op |-> op, args |-> args, raised |-> raised]

\* The outcome a of a record operation, stored back under n.
Store(n, a) ==
    /\ Len(a.rec.phones) <= MaxPhones
    /\ book' = [book EXCEPT ![BookIndex(book, n)].value = a.rec]

AddPhone(n, phone) ==
    /\ BookIndex(book, n) # 0
    /\ LET a == RecAddPhone(book[BookIndex(book, n)].value, phone)
       IN  /\ Store(n, a)
           /\ ev' = Call("add_phone", <<n, phone>>, a.raised)
    /\ res' = <<>>

RemovePhone(n, phone) ==
    /\ BookIndex(book, n) # 0
    /\ LET a == RecRemovePhone(book[BookIndex(book, n)].value, phone)
       IN  /\ Store(n, a)
           /\ ev' = Call("remove_phone", <<n, phone>>, a.raised)
    /\ res' = <<>>

EditPhone(n, old_phone, new_phone) ==
    /\ BookIndex(book, n) # 0
    /\ LET a == RecEditPhone(book[BookIndex(book, n)].value, old_phone, new_phone)
       IN  /\ Store(n, a)
           /\ ev' = Call("edit_phone", <<n, old_phone, new_phone>>, a.raised)
    /\ res' = <<>>

FindPhone(n, phone) ==
    /\ BookIndex(book, n) # 0
    /\ res' = RecFindPhone(book[BookIndex(book, n)].value, phone)
    /\ ev' = Call("find_phone", <<n, phone>>, FALSE)
    /\ UNCHANGED book

AddBirthday(n, birthday) ==
    /\ BookIndex(book, n) # 0
    /\ LET a == RecAddBirthday(book[BookIndex(book, n)].value, birthday)
       IN  /\ Store(n, a)
           /\ ev' = Call("add_birthday", <<n, birthday>>, a.raised)
    /\ res' = <<>>

\* str(record); the padding of the year is the C library's choice.
Str(n) ==
    /\ BookIndex(book, n) # 0
    /\ \E pad \in BOOLEAN :
           res' = RecStr(book[BookIndex(book, n)].value, pad)
    /\ ev' = Call("str", <<n>>, FALSE)
    /\ UNCHANGED book

Change(n, new_phone) ==
    /\ BookIndex(book, n) # 0
    /\ LET a == MainChange(book[BookIndex(book, n)].value, new_phone)
       IN  /\ Store(n, a)
           /\ ev' = Call("change", <<n, new_phone>>, a.raised)
    /\ res' = <<>>

AddRecord(record) ==
    /\ book' = BookAddRecord(book, record)
    /\ ev' = Call("add_record", <<record>>, FALSE)
    /\ res' = <<>>

Find(n) ==
    /\ res' = BookFind(book, n)
    /\ ev' = Call("find", <<n>>, FALSE)
    /\ UNCHANGED book

Delete(n) ==
    /\ book' = BookDelete(book, n)
    /\ ev' = Call("delete", <<n>>, FALSE)
    /\ res' = <<>>

Add(n, phones) ==
    /\ LET a == MainAdd(book, n, phones)
       IN  /\ \A i \in 1..Len(a.data) : Len(a.data[i].value.phones) <= MaxPhones
           /\ book' = a.data
           /\ ev' = Call("add", <<n, phones>>, a.raised)
    /\ res' = <<>>

GetUpcomingBirthdays(today) ==
    /\ LET a == BookGetUpcomingBirthdays(book, today)
       IN  /\ res' = a.value
           /\ ev' = Call("get_upcoming_birthdays", <<today>>, a.raised)
    /\ UNCHANGED book

(***************************************************************************)
(* Specifications.                                                         *)
(***************************************************************************)
NoCall == Call("init", <<>>, FALSE)

\* One record, just constructed and stored under its name: the operations of
\* Record and the `change` command.
Init ==
    /\ book \in {BookAddRecord(<<>>, Record(n)) : n \in Names}
    /\ ev = NoCall
    /\ res = <<>>

Next ==
    \E n \in Names :
        \/ \E p \in PhoneTexts : AddPhone(n, p)
        \/ \E p \in PhoneTexts : RemovePhone(n, p)
        \/ \E p, q \in PhoneTexts : EditPhone(n, p, q)
        \/ \E p \in PhoneTexts : FindPhone(n, p)
        \/ \E p \in PhoneTexts : Change(n, p)
        \/ \E t \in FewBirthdayTexts : AddBirthday(n, t)

Spec == Init /\ [][Next]_vars

\* One record: Birthday construction and rendering.
NextBirthday ==
    \E n \in Names :
        \/ \E t \in BirthdayTexts : AddBirthday(n, t)
        \/ Str(n)

InitBirthday ==
    /\ book = BookAddRecord(<<>>, Record("Alice"))
    /\ ev = NoCall
    /\ res = <<>>

SpecBirthday == InitBirthday /\ [][NextBirthday]_vars

\* The store, empty at first: add_record, find, delete and the `add` command.
InitBook ==
    /\ book = <<>>
    /\ ev = NoCall
    /\ res = <<>>

NextBook ==
    \/ \E r \in SampleRecords : AddRecord(r)
    \/ \E n \in Names : Find(n)
    \/ \E n \in Names : Delete(n)
    \/ \E n \in Names, ps \in ArgLists(BookPhoneTexts, MaxArgs) : Add(n, ps)

SpecBook == InitBook /\ [][NextBook]_vars

\* The store with birthdays, and the upcoming-birthdays query.
NextUpcoming ==
    \/ \E n \in Names : AddRecord(Record(n))
    \/ \E n \in Names, t \in UpcomingTexts : AddBirthday(n, t)
    \/ \E n \in Names : Delete(n)
    \/ \E today \in Instants : GetUpcomingBirthdays(today)

SpecUpcoming == InitBook /\ [][NextUpcoming]_vars

(***************************************************************************)
(* Properties.                                                             *)
(***************************************************************************)
\* The record stored under name n.
RecordOf(data, n) == data[BookIndex(data, n)].value

\* A text of exactly 10 decimal digits.
IsTenDigits(t) == Len(t) = 10 /\ \A i \in 1..Len(t) : t[i] \in UnicodeDigits

\* C1: after any sequence of add_phone, remove_phone and edit_phone calls,
\* failed ones included, every phone of the record is a text of exactly 10
\* decimal digits.
C1_PhonesAreTenDigits ==
    \A i \in 1..Len(book) :
        \A j \in 1..Len(book[i].value.phones) :
            IsTenDigits(book[i].value.phones[j])

\* An edit_phone put a new value into a record of two phones.
C1_Witness ==
    /\ ev.op = "edit_phone" /\ ~ev.raised
    /\ ev.args[2] # ev.args[3]
    /\ Len(RecordOf(book, ev.args[1]).phones) = 2
    /\ RecFindPhone(RecordOf(book, ev.args[1]), ev.args[3]) # <<>>

\* C4: a call of add_phone, edit_phone or add_birthday that fails with a
\* validation error leaves the record as it was: phones, birthday and name.
C4_FailedCallChangesNothing ==
    [][(ev'.op \in {"add_phone", "edit_phone", "add_birthday"} /\ ev'.raised)
          => book' = book]_vars

\* An edit_phone failed on a record that holds the old value and a birthday.
C4_Witness ==
    /\ ev.op = "edit_phone" /\ ev.raised
    /\ RecFindPhone(RecordOf(book, ev.args[1]), ev.args[2]) # <<>>
    /\ RecordOf(book, ev.args[1]).birthday # <<>>

\* The least position of phones that holds value; 0 when none does.
FirstAt(phones, value) ==
    IF \E i \in 1..Len(phones) : phones[i] = value
    THEN CHOOSE i \in 1..Len(phones) :
             /\ phones[i] = value
             /\ \A j \in 1..(i - 1) : phones[j] # value
    ELSE 0

\* C5: edit_phone(old, new) with a valid new value signals no error and
\* replaces the first phone equal to old, and nothing else, by new; without a
\* phone equal to old the phones stay as they are.  The `change` command does
\* so with the record's first phone as old.
C5_EditReplacesFirst ==
    [][/\ (ev'.op = "edit_phone" /\ IsTenDigits(ev'.args[3])) =>
            LET before == RecordOf(book, ev'.args[1]).phones
                after == RecordOf(book', ev'.args[1]).phones
                k == FirstAt(before, ev'.args[2])
            IN  /\ ~ev'.raised
                /\ after = IF k = 0 THEN before
                           ELSE [before EXCEPT ![k] = ev'.args[3]]
       /\ (ev'.op = "change" /\ IsTenDigits(ev'.args[2])) =>
            LET before == RecordOf(book, ev'.args[1]).phones
                after == RecordOf(book', ev'.args[1]).phones
            IN  /\ ~ev'.raised
                /\ after = IF before = <<>> THEN before
                           ELSE [before EXCEPT ![1] = ev'.args[2]]
      ]_vars

\* An edit_phone left <<new, old>>: the record held old twice, and the second
\* one was kept.
C5_Witness ==
    /\ ev.op = "edit_phone" /\ ~ev.raised
    /\ ev.args[2] # ev.args[3]
    /\ RecordOf(book, ev.args[1]).phones = <<ev.args[3], ev.args[2]>>

\* The records stored under key n.
Under(data, n) == {data[i].value : i \in {j \in 1..Len(data) : data[j].key = n}}

\* C6: every key of the store is the name of the record under it, and no key
\* occurs twice; add_record(r) leaves exactly r under r's name and the other
\* names as they were; delete(n) leaves nothing under n and the other names as
\* they were, and changes nothing when n is absent; find(n) returns the record
\* under n, or None; none of them signals an error.
C6_StoreKeysAndFind ==
    /\ [](\A i \in 1..Len(book) :
              /\ book[i].key = book[i].value.name
              /\ \A j \in 1..Len(book) : book[j].key = book[i].key => j = i)
    /\ [][/\ ev'.op = "add_record" =>
               /\ ~ev'.raised
               /\ Under(book', ev'.args[1].name) = {ev'.args[1]}
               /\ \A m \in Names \ {ev'.args[1].name} :
                      Under(book', m) = Under(book, m)
          /\ ev'.op = "delete" =>
               /\ ~ev'.raised
               /\ Under(book', ev'.args[1]) = {}
               /\ \A m \in Names \ {ev'.args[1]} :
                      Under(book', m) = Under(book, m)
               /\ Under(book, ev'.args[1]) = {} => book' = book
          /\ ev'.op = "find" =>
               /\ ~ev'.raised
               /\ book' = book
               /\ Under(book, ev'.args[1]) = {res'[i] : i \in 1..Len(res')}
               /\ Len(res') <= 1
         ]_vars

\* add_record has replaced the record of the first of two names.
C6_Witness ==
    /\ ev.op = "add_record"
    /\ Len(book) = 2
    /\ book[1].key = ev.args[1].name
    /\ book[1].value.phones = <<PhoneB>>

\* C9: the list the query returns holds pairs (name, stored birthday) of
\* records of the store, in the order of the store's keys and so each at most
\* once; add_record of a name the store holds keeps the order of the keys.
C9_ResultInStoreOrder ==
    /\ []((ev.op = "get_upcoming_birthdays" /\ ~ev.raised) =>
            /\ \A k \in 1..Len(res) :
                   /\ BookIndex(book, res[k][1]) # 0
                   /\ RecordOf(book, res[k][1]).birthday = <<res[k][2]>>
            /\ \A k, l \in 1..Len(res) :
                   k < l => BookIndex(book, res[k][1]) < BookIndex(book, res[l][1]))
    /\ [][(ev'.op = "add_record" /\ BookIndex(book, ev'.args[1].name) # 0) =>
             [i \in 1..Len(book') |-> book'[i].key]
                 = [i \in 1..Len(book) |-> book[i].key]]_vars

\* The query returned two records, the later birthday first.
C9_Witness ==
    /\ ev.op = "get_upcoming_birthdays" /\ ~ev.raised
    /\ Len(res) = 2
    /\ res[1][2].month = res[2][2].month
    /\ res[1][2].day > res[2][2].day

\* The date of a datetime, the time of day ignored.
DateOf(dt) == [dt EXCEPT !.tod = 0]

\* The next occurrence of birthday b on or after the date of today.
NextOccurrence(b, today) ==
    LET this_year == DateTime(today.year, b.month, b.day, 0)
    IN  IF DtLess(this_year, DateOf(today))
        THEN DateTime(today.year + 1, b.month, b.day, 0)
        ELSE this_year

\* C2: the query returns a record exactly when it has a birthday whose next
\* occurrence, by dates alone, lies in [today, today + 7 days].
C2_ReturnsExactlyTheWindow ==
    (ev.op = "get_upcoming_birthdays" /\ ~ev.raised) =>
        \A i \in 1..Len(book) :
            (\E k \in 1..Len(res) : res[k][1] = book[i].value.name)
            <=> /\ book[i].value.birthday # <<>>
                /\ LET next == NextOccurrence(book[i].value.birthday[1], ev.args[1])
                   IN  /\ DtLeq(DateOf(ev.args[1]), next)
                       /\ DtLeq(next, AddDays(DateOf(ev.args[1]), 7))

\* C3: the query returns a list, and signals no error, for every store and
\* every current date.
C3_QueryNeverRaises == ev.op = "get_upcoming_birthdays" => ~ev.raised

\* A text DD.MM.YYYY over the given digits that names a real calendar date.
IsDDMMYYYY(t, digits) ==
    /\ Len(t) = 10
    /\ t[3] = "." /\ t[6] = "."
    /\ \A i \in {1, 2, 4, 5, 7, 8, 9, 10} : t[i] \in digits
    /\ IsDate(ToInt(SubSeq(t, 7, 10)), ToInt(SubSeq(t, 4, 5)), ToInt(SubSeq(t, 1, 2)))

\* C7: Birthday construction succeeds only for a text DD.MM.YYYY that names
\* a real calendar date.
C7_OnlyDDMMYYYY ==
    (ev.op = "add_birthday" /\ ~ev.raised) => IsDDMMYYYY(ev.args[2], UnicodeDigits)

\* C8: the text of a record whose birthday was set from a valid text
\* DD.MM.YYYY ends with that text.
C8_RoundTrip ==
    ev.op = "str" =>
        \A d \in BirthdayTexts :
            (/\ IsDDMMYYYY(d, AsciiDigits)
             /\ RecordOf(book, ev.args[1]).birthday = <<Birthday(d).value>>)
            => /\ Len(res) > Len(d)
               /\ res[Len(res) - Len(d)] = ", Birthday: "
               /\ SubSeq(res, Len(res) - Len(d) + 1, Len(res)) = d

\* C10: an `add` command that reports a validation error leaves the store as
\* it was.
C10_FailedAddChangesNothing ==
    [][(ev'.op = "add" /\ ev'.raised) => book' = book]_vars

====
